---- MODULE Spec2Model ----
(***************************************************************************)
(* Model of the two scripts of WAT25_IndicDoc:                             *)
(*   src/src/inference_prompt.py  the batched generation runner            *)
(*   src/src/download_data.py     the dataset exporter                     *)
(* Text is a sequence of one-character strings; "nl" stands for the        *)
(* newline character.  A file's content is the flat sequence of its        *)
(* characters.                                                             *)
(***************************************************************************)
EXTENDS Integers, Sequences, FiniteSets, TLC

VARIABLES
    \* ---- generation runner (inference_prompt.py) ----
    lines,          \* the lines of --input_file, as read by read_text().splitlines()
    batch_size,     \* --batch_size
    engine,         \* which deterministic engine answers llm.generate
    out_has_dir,    \* whether --output_file has a directory component
    pc,             \* position in main()
    fail_cause,     \* which call raised, "" while none did
    prompts,        \* list(load_prompts(...))
    i,              \* loop variable of range(0, len(prompts), batch_size)
    j,              \* number of outputs of the current batch already written
    batch_prompts,  \* prompts[i:i + batch_size]
    batch_outputs,  \* gen_fn(batch_prompts)
    buf,            \* characters written to fout and still in its buffer
    file,           \* characters of the output file as the OS holds them
    fout_open,      \* the handle of the with statement is open
    engine_inits,   \* number of LLM(...) constructions
    submitted,      \* the loop indices i whose batch was handed to gen_fn
    flushed,        \* number of prompts whose batch completed fout.flush()
    \* ---- dataset exporter (download_data.py) ----
    splits,         \* args.splits
    seed,           \* selects the content of the remote dataset
    epc,            \* position in main()
    si,             \* index of the current subset in args.splits
    pi,             \* index of the current pair in PAIRS
    fs,             \* the files under out_root: path -> content
    dirs,           \* the directories created under out_root
    fetched,        \* the (subset, pair) of every load_dataset call, in order
    written,        \* the paths written by save_jsonl, in order
    fetch_failed,   \* a load_dataset call raised
    \* ---- prompt stripping on its own ----
    sp,             \* a prompt
    ss,             \* the text the engine generated for it
    sout,           \* the generation main() computes
    spc

runnerVars == <<lines, batch_size, engine, out_has_dir, pc, fail_cause, prompts,
                i, j, batch_prompts, batch_outputs, buf, file, fout_open,
                engine_inits, submitted, flushed>>
exporterVars == <<splits, seed, epc, si, pi, fs, dirs, fetched, written, fetch_failed>>
stripVars == <<sp, ss, sout, spc>>
vars == <<runnerVars, exporterVars, stripVars>>

\* ------------------------------------------------------------------ bounds
\* lines of the input file
MaxLines == 3
\* largest --batch_size tried (0 and -1 are tried too)
MaxBatch == 4
\* characters fout's buffer holds before it is written out; the runtime's
\* buffer of some thousand bytes, scaled to output lines of 6 to 9 characters
BufferSize == 12
\* entries of --splits
MaxSplits == 2
\* rows of a fetched subset
MaxRows == 2
\* length of the prompt and of the generated text when stripping is run alone
MaxStripLen == 2

\* ------------------------------------------------------------------- text
Min(a, b) == IF a < b THEN a ELSE b

\* str.isspace of one character
IsSpace(c) == c \in {" ", "nl"}

RECURSIVE LStrip(_)
LStrip(s) == IF s # <<>> /\ IsSpace(Head(s)) THEN LStrip(Tail(s)) ELSE s

RECURSIVE RStrip(_)
RStrip(s) ==
    IF s # <<>> /\ IsSpace(s[Len(s)]) THEN RStrip(SubSeq(s, 1, Len(s) - 1)) ELSE s

\* str.strip()
Strip(s) == RStrip(LStrip(s))

\* str.replace(old, ""): every non-overlapping occurrence of old, found from
\* the left, is removed; an empty old leaves the string as it is.
RECURSIVE Replace(_, _)
Replace(s, old) ==
    IF old = <<>> \/ Len(s) < Len(old) THEN s
    ELSE IF SubSeq(s, 1, Len(old)) = old
         THEN Replace(SubSeq(s, Len(old) + 1, Len(s)), old)
         ELSE <<Head(s)>> \o Replace(Tail(s), old)

\* the escaping json.dumps(..., ensure_ascii=False) applies inside a string
JsonEscapeChar(c) ==
    CASE c = "nl" -> <<"\\", "n">>
      [] c = "\"" -> <<"\\", "\"">>
      [] c = "\\" -> <<"\\", "\\">>
      [] OTHER -> <<c>>

RECURSIVE JsonEscape(_)
JsonEscape(s) ==
    IF s = <<>> THEN <<>> ELSE JsonEscapeChar(Head(s)) \o JsonEscape(Tail(s))

\* json.dumps([text], ensure_ascii=False)
JsonDumps(text) == <<"[", "\"">> \o JsonEscape(text) \o <<"\"", "]">>

\* the number of newline characters of a file content
RECURSIVE LineCount(_)
LineCount(content) ==
    IF content = <<>> THEN 0
    ELSE (IF Head(content) = "nl" THEN 1 ELSE 0) + LineCount(Tail(content))

\* the strings over alphabet of length at most n
RECURSIVE StringsUpTo(_, _)
StringsUpTo(alphabet, n) ==
    IF n = 0 THEN {<<>>}
    ELSE LET shorter == StringsUpTo(alphabet, n - 1)
         IN  shorter \cup {<<c>> \o s : c \in alphabet, s \in {t \in shorter : Len(t) = n - 1}}

\* --------------------------------------------- prompt stripping (main 99-101)
\* build_generator.generate: the text returned for one prompt
GeneratedText(prompt, text) == prompt \o text

\* output["generated_text"].replace(prompt, "").strip()
Normalize(generated_text, prompt) == Strip(Replace(generated_text, prompt))

StripAlphabet == {"a", "b", " "}

StripIdle == sp = <<>> /\ ss = <<>> /\ sout = <<>> /\ spc = "idle"

StripInit ==
    /\ sp \in StringsUpTo(StripAlphabet, MaxStripLen)
    /\ ss \in StringsUpTo(StripAlphabet, MaxStripLen)
    /\ sout = <<>>
    /\ spc = "start"

StripStep ==
    /\ UNCHANGED <<runnerVars, exporterVars>>
    /\ spc = "start"
    /\ sout' = Normalize(GeneratedText(sp, ss), sp)
    /\ spc' = "done"
    /\ UNCHANGED <<sp, ss>>

\* ------------------------------------------- generation runner: its inputs
\* Python values a prompt can be
PyStr(s) == [type |-> "str", s |-> s]
PyInt == [type |-> "int", s |-> <<>>]

\* What json.loads returns for a line: a list with its items, a dict with the
\* value of its "prompt" key as only item (no item when the key is absent), or
\* "invalid" when it raises JSONDecodeError.
JsonList(items) == [kind |-> "list", items |-> items]
JsonDict(items) == [kind |-> "dict", items |-> items]
JsonInvalid == [kind |-> "invalid", items |-> <<>>]

\* An input line: its characters and what json.loads makes of them.  Of a
\* JSON-looking line only the first character is spelled out.
InputLines ==
    { [text |-> <<" ">>, obj |-> JsonInvalid],                          \* blank
      [text |-> <<" ", "a", "b">>, obj |-> JsonInvalid],                \* raw text
      [text |-> <<"[">>, obj |-> JsonList(<<PyStr(<<"b", "a">>), PyStr(<<"a">>)>>)],
      [text |-> <<"{">>, obj |-> JsonDict(<<PyStr(<<"b">>)>>)],
      [text |-> <<"[">>, obj |-> JsonList(<<PyInt>>)],                  \* [1]
      [text |-> <<"[">>, obj |-> JsonList(<<>>)],                       \* []
      [text |-> <<"{">>, obj |-> JsonDict(<<>>)],                       \* {}
      [text |-> <<"{">>, obj |-> JsonInvalid] }                         \* {"prompt":

InputFiles == UNION {[1..n -> InputLines] : n \in 0..MaxLines}

BatchSizes == {-1, 0} \cup 1..MaxBatch

Engines == {"first", "multiline"}

\* the content of an output file left by an earlier run
OldContent == <<"o", "nl">>

\* ------------------------------------------------------ load_prompts (24-30)
\* json.loads(line)
JsonLoads(line) == line.obj

\* One line of load_prompts: skip -> nothing is yielded, err -> the exception
\* raised, otherwise the prompt yielded.
ParseLine(line) ==
    LET stripped == Strip(line.text)
    IN  IF stripped = <<>> THEN [skip |-> TRUE, err |-> "", prompt |-> PyStr(<<>>)]
        ELSE LET obj == IF stripped[1] \in {"{", "["}
                        THEN JsonLoads(line)
                        ELSE JsonDict(<<PyStr(stripped)>>)
             IN  IF obj.kind = "invalid"
                 THEN [skip |-> FALSE, err |-> "JSONDecodeError", prompt |-> PyStr(<<>>)]
                 ELSE IF obj.items = <<>>
                 THEN [skip |-> FALSE,
                       err |-> IF obj.kind = "list" THEN "IndexError" ELSE "KeyError",
                       prompt |-> PyStr(<<>>)]
                 ELSE [skip |-> FALSE, err |-> "", prompt |-> obj.items[1]]

\* a variant of load_prompts that drops the lines it cannot parse
RECURSIVE LoadPromptsSkipBad(_)
LoadPromptsSkipBad(ls) ==
    IF ls = <<>> THEN [err |-> "", prompts |-> <<>>]
    ELSE LET r == ParseLine(Head(ls))
             rest == LoadPromptsSkipBad(Tail(ls))
         IN  IF r.skip \/ r.err # "" THEN rest
             ELSE [err |-> "", prompts |-> <<r.prompt>> \o rest.prompts]

\* list(load_prompts(path)): the prompts in line order, or the first exception
RECURSIVE LoadPrompts(_)
LoadPrompts(ls) ==
    IF ls = <<>> THEN [err |-> "", prompts |-> <<>>]
    ELSE LET r == ParseLine(Head(ls))
         IN  IF r.err # "" THEN [err |-> r.err, prompts |-> <<>>]
             ELSE LET rest == LoadPrompts(Tail(ls))
                  IN  IF rest.err # "" THEN rest
                      ELSE IF r.skip THEN rest
                      ELSE [err |-> "", prompts |-> <<r.prompt>> \o rest.prompts]

\* ------------------------------------------------- build_generator (32-80)
\* The text a deterministic engine generates after a prompt.
Completion(e, p) ==
    IF p = <<>> THEN <<" ", "c">>
    ELSE IF e = "first" THEN <<" ", "c", p[1]>>
    ELSE <<" ", p[Len(p)], "nl", "d", " ">>

\* generate(prompts): one generated_text per prompt, in order
Generate(e, ps) ==
    [k \in 1..Len(ps) |-> GeneratedText(ps[k].s, Completion(e, ps[k].s))]

\* prompt + output.outputs[0].text raises TypeError unless prompt is a str
AllStr(ps) == \A k \in 1..Len(ps) : ps[k].type = "str"

\* ------------------------------------ the state of a script that is not run
ExporterIdle ==
    /\ splits = <<>> /\ seed = 0 /\ epc = "idle" /\ si = 1 /\ pi = 1
    /\ fs = <<>> /\ dirs = {} /\ fetched = <<>> /\ written = <<>>
    /\ fetch_failed = FALSE

RunnerIdle ==
    /\ lines = <<>> /\ batch_size = 1 /\ engine = "first" /\ out_has_dir = TRUE
    /\ pc = "idle" /\ fail_cause = "" /\ prompts = <<>> /\ i = 0 /\ j = 0
    /\ batch_prompts = <<>> /\ batch_outputs = <<>> /\ buf = <<>> /\ file = <<>>
    /\ fout_open = FALSE /\ engine_inits = 0 /\ submitted = <<>> /\ flushed = 0

\* ------------------------------------------------------------ main (82-110)
RunnerInit ==
    /\ lines \in InputFiles
    /\ batch_size \in BatchSizes
    /\ engine \in Engines
    /\ out_has_dir \in BOOLEAN
    /\ pc = "start" /\ fail_cause = "" /\ prompts = <<>> /\ i = 0 /\ j = 0
    /\ batch_prompts = <<>> /\ batch_outputs = <<>> /\ buf = <<>>
    /\ file = OldContent
    /\ fout_open = FALSE /\ engine_inits = 0 /\ submitted = <<>> /\ flushed = 0

\* the runner leaves the other script's state alone
RunnerFrame == UNCHANGED <<exporterVars, stripVars>>

\* prompts = list(load_prompts(args.input_file))                      (line 84)
LoadPromptsStep ==
    /\ RunnerFrame
    /\ pc = "start"
    /\ LET r == LoadPrompts(lines)
       IN  IF r.err = ""
           THEN prompts' = r.prompts /\ pc' = "makedirs" /\ UNCHANGED fail_cause
           ELSE pc' = "failed" /\ fail_cause' = r.err /\ UNCHANGED prompts
    /\ UNCHANGED <<lines, batch_size, engine, out_has_dir, i, j, batch_prompts,
                   batch_outputs, buf, file, fout_open, engine_inits, submitted, flushed>>

\* os.makedirs(os.path.dirname(args.output_file), exist_ok=True)      (line 88)
\* dirname is "" for a bare file name, and os.makedirs("") raises.
MakeDirs ==
    /\ RunnerFrame
    /\ pc = "makedirs"
    /\ IF out_has_dir
       THEN pc' = "engine" /\ UNCHANGED fail_cause
       ELSE pc' = "failed" /\ fail_cause' = "FileNotFoundError"
    /\ UNCHANGED <<lines, batch_size, engine, out_has_dir, prompts, i, j, batch_prompts,
                   batch_outputs, buf, file, fout_open, engine_inits, submitted, flushed>>

\* gen_fn = build_generator(args): LLM(...) is constructed            (line 91)
BuildGenerator ==
    /\ RunnerFrame
    /\ pc = "engine"
    /\ engine_inits' = engine_inits + 1
    /\ pc' = "open"
    /\ UNCHANGED <<lines, batch_size, engine, out_has_dir, fail_cause, prompts, i, j,
                   batch_prompts, batch_outputs, buf, file, fout_open, submitted, flushed>>

\* build_generator raises (bad model reference, not enough memory)
BuildGeneratorFails ==
    /\ RunnerFrame
    /\ pc = "engine"
    /\ pc' = "failed"
    /\ fail_cause' = "EngineInitError"
    /\ UNCHANGED <<lines, batch_size, engine, out_has_dir, prompts, i, j, batch_prompts,
                   batch_outputs, buf, file, fout_open, engine_inits, submitted, flushed>>

\* with open(args.output_file, "w", encoding="utf-8") as fout        (line 94)
OpenOutput ==
    /\ RunnerFrame
    /\ pc = "open"
    /\ file' = <<>>
    /\ buf' = <<>>
    /\ fout_open' = TRUE
    /\ i' = 0
    /\ pc' = "loop"
    /\ UNCHANGED <<lines, batch_size, engine, out_has_dir, fail_cause, prompts, j,
                   batch_prompts, batch_outputs, engine_inits, submitted, flushed>>

\* range(0, n, step) still has the value at
RangeHasNext(at, n, step) ==
    IF step > 0 THEN at < n ELSE at > n

\* a slice that loses the last prompt of every batch of two or more
BatchSliceShort(ps, at, size) ==
    SubSeq(ps, at + 1, Min(IF size > 1 THEN at + size - 1 ELSE at + size, Len(ps)))

\* prompts[i:i + batch_size], for 0 <= i and 0 < batch_size           (line 96)
BatchSlice(ps, at, size) == SubSeq(ps, at + 1, Min(at + size, Len(ps)))

\* leaving the with block: fout.close() writes the buffer out
CloseOutput ==
    /\ file' = file \o buf
    /\ buf' = <<>>
    /\ fout_open' = FALSE

\* for i in range(0, len(prompts), batch_size)                     (lines 95-96)
\* range raises ValueError for a step of 0; an empty range ends the loop.
LoopHead ==
    /\ RunnerFrame
    /\ pc = "loop"
    /\ IF batch_size = 0
       THEN /\ pc' = "failed" /\ fail_cause' = "ValueError"
            /\ CloseOutput
            /\ UNCHANGED batch_prompts
       ELSE IF RangeHasNext(i, Len(prompts), batch_size)
       THEN /\ batch_prompts' = BatchSlice(prompts, i, batch_size)
            /\ pc' = "infer"
            /\ UNCHANGED <<fail_cause, file, buf, fout_open>>
       ELSE /\ pc' = "done"
            /\ CloseOutput
            /\ UNCHANGED <<fail_cause, batch_prompts>>
    /\ UNCHANGED <<lines, batch_size, engine, out_has_dir, prompts, i, j,
                   batch_outputs, engine_inits, submitted, flushed>>

\* batch_outputs = gen_fn(batch_prompts)                              (line 97)
Infer ==
    /\ RunnerFrame
    /\ pc = "infer"
    /\ submitted' = Append(submitted, i)
    /\ IF AllStr(batch_prompts)
       THEN /\ batch_outputs' = Generate(engine, batch_prompts)
            /\ j' = 0
            /\ pc' = "write"
            /\ UNCHANGED <<fail_cause, file, buf, fout_open>>
       ELSE /\ pc' = "failed" /\ fail_cause' = "TypeError"
            /\ CloseOutput
            /\ UNCHANGED <<batch_outputs, j>>
    /\ UNCHANGED <<lines, batch_size, engine, out_has_dir, prompts, i, batch_prompts,
                   engine_inits, flushed>>

\* a variant of the failing call that submits the same batch again
InferRetries ==
    /\ RunnerFrame
    /\ pc = "infer"
    /\ submitted' = Append(submitted, i)
    /\ Len(submitted) < Len(prompts) + 1
    /\ UNCHANGED <<lines, batch_size, engine, out_has_dir, pc, fail_cause, prompts, i, j,
                   batch_prompts, batch_outputs, buf, file, fout_open, engine_inits,
                   flushed>>

\* llm.generate raises (out of memory, engine error): the exception leaves the
\* with block, which closes fout, and ends the process
InferFails ==
    /\ RunnerFrame
    /\ pc = "infer"
    /\ submitted' = Append(submitted, i)
    /\ pc' = "failed"
    /\ fail_cause' = "EngineError"
    /\ CloseOutput
    /\ UNCHANGED <<lines, batch_size, engine, out_has_dir, prompts, i, j, batch_prompts,
                   batch_outputs, engine_inits, flushed>>

\* the line written for output k of the batch                     (lines 100-101)
OutputLine(generated_text, prompt) ==
    JsonDumps(Normalize(generated_text, prompt)) \o <<"nl">>

\* fout.write(...) for the next (output, prompt) of zip(batch_outputs,
\* batch_prompts).  The text goes to fout's buffer; when it does not fit, the
\* buffered text is written to the file first.
WriteOutput ==
    /\ RunnerFrame
    /\ pc = "write"
    /\ j < Min(Len(batch_outputs), Len(batch_prompts))
    /\ LET line == OutputLine(batch_outputs[j + 1], batch_prompts[j + 1].s)
       IN  IF Len(buf) + Len(line) > BufferSize
           THEN file' = file \o buf /\ buf' = line
           ELSE buf' = buf \o line /\ UNCHANGED file
    /\ j' = j + 1
    /\ UNCHANGED <<lines, batch_size, engine, out_has_dir, pc, fail_cause, prompts, i,
                   batch_prompts, batch_outputs, fout_open, engine_inits, submitted,
                   flushed>>

\* a flush that leaves the buffer as it is
FlushBatchLazy ==
    /\ RunnerFrame
    /\ pc = "write"
    /\ j = Min(Len(batch_outputs), Len(batch_prompts))
    /\ flushed' = i + Len(batch_prompts)
    /\ i' = i + batch_size
    /\ pc' = "loop"
    /\ UNCHANGED <<lines, batch_size, engine, out_has_dir, fail_cause, prompts, j,
                   batch_prompts, batch_outputs, buf, file, fout_open, engine_inits,
                   submitted>>

\* fout.flush() after the batch's last write, then the next i     (lines 102, 95)
FlushBatch ==
    /\ RunnerFrame
    /\ pc = "write"
    /\ j = Min(Len(batch_outputs), Len(batch_prompts))
    /\ file' = file \o buf
    /\ buf' = <<>>
    /\ flushed' = i + Len(batch_prompts)
    /\ i' = i + batch_size
    /\ pc' = "loop"
    /\ UNCHANGED <<lines, batch_size, engine, out_has_dir, fail_cause, prompts, j,
                   batch_prompts, batch_outputs, fout_open, engine_inits, submitted>>

\* The process is terminated from outside while in the batch loop: what is
\* still in fout's buffer is lost.
Kill ==
    /\ RunnerFrame
    /\ pc \in {"loop", "infer", "write"}
    /\ pc' = "killed"
    /\ buf' = <<>>
    /\ fout_open' = FALSE
    /\ UNCHANGED <<lines, batch_size, engine, out_has_dir, fail_cause, prompts, i, j,
                   batch_prompts, batch_outputs, file, engine_inits, submitted, flushed>>

Init == RunnerInit /\ ExporterIdle /\ StripIdle

Next ==
    \/ LoadPromptsStep
    \/ MakeDirs
    \/ BuildGenerator
    \/ BuildGeneratorFails
    \/ OpenOutput
    \/ LoopHead
    \/ Infer
    \/ InferFails
    \/ WriteOutput
    \/ FlushBatch
    \/ Kill

Spec == Init /\ [][Next]_vars

\* ------------------------------------------ properties of the generation runner
\* the exceptions load_prompts can raise
ParseErrors == {"JSONDecodeError", "IndexError", "KeyError"}

\* the input lines that are not empty after trimming
RECURSIVE NonBlank(_)
NonBlank(ls) ==
    IF ls = <<>> THEN <<>>
    ELSE (IF Strip(Head(ls).text) = <<>> THEN <<>> ELSE <<Head(ls)>>) \o NonBlank(Tail(ls))

\* some line makes load_prompts raise
HasBadLine == \E k \in 1..Len(lines) : ParseLine(lines[k]).err # ""

\* the output of a run that submits the prompts one by one: the line of the
\* first prompt, then that of the second, ...
RECURSIVE OneByOneOutput(_)
OneByOneOutput(ps) ==
    IF ps = <<>> THEN <<>>
    ELSE OutputLine(Generate(engine, <<Head(ps)>>)[1], Head(ps).s)
         \o OneByOneOutput(Tail(ps))

IsPrefix(s, t) == Len(s) <= Len(t) /\ s = SubSeq(t, 1, Len(s))

\* C1: a run over string prompts that ends successfully leaves one output line
\* per non-empty input line, line k being the normalized completion of prompt
\* k, whatever the value of --batch_size.
C1_OneLinePerPrompt ==
    (pc = "done" /\ AllStr(prompts)) =>
        /\ LineCount(file) = Len(NonBlank(lines))
        /\ file = OneByOneOutput(prompts)

\* C9: every non-empty line yields, by its first character, the first element
\* of the array, the "prompt" field of the object or the raw line, and what it
\* yields is a plain string; a line that does not parse ends the run.
C9_ParsedPromptIsString ==
    pc \notin {"start", "idle"} =>
        /\ HasBadLine <=> (pc = "failed" /\ fail_cause \in ParseErrors)
        /\ ~HasBadLine =>
              /\ Len(prompts) = Len(NonBlank(lines))
              /\ \A k \in 1..Len(prompts) :
                    LET line == NonBlank(lines)[k]
                        first == Strip(line.text)[1]
                    IN  /\ prompts[k] = IF first \in {"[", "{"}
                                        THEN line.obj.items[1]
                                        ELSE PyStr(Strip(line.text))
                        /\ prompts[k].type = "str"

\* C6: the engine is constructed at most once, only after every line parsed;
\* the output file is opened and batches are submitted only after both
\* succeeded; a line that does not parse, or a failing construction, ends the
\* run with nothing submitted and the earlier output file untouched.
C6_EngineOnceBeforeOutput ==
    /\ engine_inits <= 1
    /\ engine_inits = 1 => ~HasBadLine /\ Len(prompts) = Len(NonBlank(lines))
    /\ (fout_open \/ file # OldContent \/ submitted # <<>>) => engine_inits = 1
    /\ HasBadLine =>
          /\ pc \in {"start", "failed"}
          /\ submitted = <<>> /\ file = OldContent /\ ~fout_open /\ engine_inits = 0
    /\ fail_cause = "EngineInitError" =>
          /\ pc = "failed"
          /\ submitted = <<>> /\ file = OldContent /\ ~fout_open /\ engine_inits = 0

\* C6 witness: the engine construction failed after three prompts were parsed
C6_Witness ==
    /\ pc = "failed" /\ fail_cause = "EngineInitError"
    /\ Len(prompts) = 3 /\ file = OldContent

\* C5: batches are submitted once each, in order; when the call for a batch
\* fails the run is in the terminal state failed, the file is closed and
\* holds exactly the lines of the batches before it.
C5_InferFailureKeepsEarlierBatches ==
    /\ \A k \in 1..Len(submitted) : submitted[k] = (k - 1) * batch_size
    /\ fail_cause \in {"EngineError", "TypeError"} =>
          /\ pc = "failed"
          /\ ~ENABLED Next
          /\ ~fout_open /\ buf = <<>>
          /\ submitted[Len(submitted)] = i
          /\ flushed = i
          /\ file = OneByOneOutput(SubSeq(prompts, 1, i))

\* C5 witness: the call for the second batch failed
C5_Witness ==
    /\ pc = "failed" /\ fail_cause = "EngineError"
    /\ Len(submitted) = 2 /\ batch_size = 2 /\ file # <<>>

C10_OneFourAllComplete ==
    LET r == LoadPrompts(lines)
    IN  (r.err = "" /\ batch_size \in {1, 4, Len(r.prompts)}) =>
            /\ fail_cause # "ValueError"
            /\ pc = "done" => file = OneByOneOutput(r.prompts)

\* C10 amended: with any batch size of at least 1 the run does not fail in the
\* loop control and a completed run has written the output of the one-by-one
\* run.
C10_PositiveBatchSizesAgree ==
    LET r == LoadPrompts(lines)
    IN  (r.err = "" /\ batch_size >= 1) =>
            /\ fail_cause # "ValueError"
            /\ pc = "done" => file = OneByOneOutput(r.prompts)

\* C10 witness: three prompts written in batches of two, the last batch short
C10_Witness ==
    /\ pc = "done" /\ batch_size = 2 /\ Len(prompts) = 3
    /\ LineCount(file) = 3

\* ------------------------------------------- dataset exporter: download_data.py
\* PAIRS (lines 9-12); a pair "eng_ben" is kept as what pair.split("_") makes
\* of it
PAIRS ==
    << <<"eng", "ben">>, <<"eng", "guj">>, <<"eng", "hin">>, <<"eng", "kan">>,
       <<"eng", "mal">>, <<"eng", "mar">>, <<"eng", "ori">>, <<"eng", "pan">>,
       <<"eng", "tam">>, <<"eng", "tel">>, <<"eng", "urd">> >>

\* the configs the remote dataset has (help of --splits, line 36)
RemoteSubsets == {"dev", "test", "train"}

\* the split names a caller passes here; "valid" is not a config of the dataset
SplitChoices == {"dev", "test", "valid"}

SplitLists == UNION {[1..n -> SplitChoices] : n \in 1..MaxSplits}

\* the documents of the remote dataset
SrcDoc(r) == IF r % 2 = 1 THEN <<"a">> ELSE <<"a", "nl", "b">>
TgtDoc(r) == IF r % 2 = 1 THEN <<"\"", "c">> ELSE <<"c">>

\* load_dataset("ai4bharat/Pralekha", subset, split=pair) when it succeeds:
\* the rows of pair number q                                          (line 25)
LoadDataset(sd, subset, q) ==
    [r \in 1..((sd + q + (IF subset = "test" THEN 1 ELSE 0)) % (MaxRows + 1)) |->
        [src_txt |-> SrcDoc(r), tgt_txt |-> TgtDoc(r)]]

\* load_dataset raises for a config the dataset does not have
SubsetExists(subset) == subset \in RemoteSubsets

\* ds["src_txt"], ds["tgt_txt"]
Column(ds, name) == [r \in 1..Len(ds) |-> IF name = "src_txt" THEN ds[r].src_txt ELSE ds[r].tgt_txt]

\* a save_jsonl that writes the text as it is, without json.dump
RECURSIVE SaveJsonlRaw(_)
SaveJsonlRaw(lns) ==
    IF lns = <<>> THEN <<>>
    ELSE Head(lns) \o <<"nl">> \o SaveJsonlRaw(Tail(lns))

\* save_jsonl: the content written for lines                      (lines 14-20)
RECURSIVE SaveJsonl(_)
SaveJsonl(lns) ==
    IF lns = <<>> THEN <<>>
    ELSE JsonDumps(Head(lns)) \o <<"nl">> \o SaveJsonl(Tail(lns))

\* out_root / subset / pair / f"doc.{lang}.jsonl"                 (lines 27-28)
DocPath(subset, pair, lang) == <<subset, pair, lang>>

\* the subsets taken from the end of the list
SplitAtReversed(k) == splits[Len(splits) + 1 - k]

\* for subset in args.splits: the k-th subset                        (line 43)
SplitAt(k) == splits[k]

ExporterFrame == UNCHANGED <<runnerVars, stripVars>>

ExporterInit ==
    /\ splits \in SplitLists
    /\ seed \in 0..MaxRows
    /\ epc = "run" /\ si = 1 /\ pi = 1
    /\ fs = <<>> /\ dirs = {} /\ fetched = <<>> /\ written = <<>>
    /\ fetch_failed = FALSE

\* the loop variables after dump_pair returned                   (lines 43-44)
Advance ==
    IF pi < Len(PAIRS)
    THEN pi' = pi + 1 /\ UNCHANGED si
    ELSE pi' = 1 /\ si' = si + 1

\* dump_pair(subset, pair, out_root) with a fetch that succeeds  (lines 22-28)
DumpPair ==
    /\ ExporterFrame
    /\ epc = "run" /\ si <= Len(splits)
    /\ LET subset == SplitAt(si)
           pair == PAIRS[pi]
           src_lang == pair[1]
           tgt_lang == pair[2]
           ds == LoadDataset(seed, subset, pi)
           src_path == DocPath(subset, pair, src_lang)
           tgt_path == DocPath(subset, pair, tgt_lang)
       IN  /\ SubsetExists(subset)
           /\ fetched' = Append(fetched, <<subset, pair>>)
           /\ dirs' = dirs \cup {<<subset>>, <<subset, pair>>}
           /\ fs' = (tgt_path :> SaveJsonl(Column(ds, "tgt_txt")))
                    @@ (src_path :> SaveJsonl(Column(ds, "src_txt"))) @@ fs
           /\ written' = written \o <<src_path, tgt_path>>
    /\ Advance
    /\ UNCHANGED <<splits, seed, epc, fetch_failed>>

\* a dump_pair that gives up on the pair and goes on with the next one
DumpPairSkips ==
    /\ ExporterFrame
    /\ epc = "run" /\ si <= Len(splits)
    /\ fetched' = Append(fetched, <<SplitAt(si), PAIRS[pi]>>)
    /\ fetch_failed' = TRUE
    /\ Advance
    /\ UNCHANGED <<splits, seed, epc, fs, dirs, written>>

\* dump_pair with a load_dataset that raises (no such config, no network):
\* nothing catches the exception
DumpPairFails ==
    /\ ExporterFrame
    /\ epc = "run" /\ si <= Len(splits)
    /\ fetched' = Append(fetched, <<SplitAt(si), PAIRS[pi]>>)
    /\ fetch_failed' = TRUE
    /\ epc' = "failed"
    /\ UNCHANGED <<splits, seed, si, pi, fs, dirs, written>>

\* the loops are over: print("All data has been written ...")       (line 47)
ExportDone ==
    /\ ExporterFrame
    /\ epc = "run" /\ si > Len(splits)
    /\ epc' = "done"
    /\ UNCHANGED <<splits, seed, si, pi, fs, dirs, fetched, written, fetch_failed>>

InitExporter == ExporterInit /\ RunnerIdle /\ StripIdle

NextExporter ==
    \/ DumpPair
    \/ DumpPairFails
    \/ ExportDone

SpecExporter == InitExporter /\ [][NextExporter]_vars

\* ------------------------------------------------ prompt stripping on its own
InitStrip == StripInit /\ RunnerIdle /\ ExporterIdle

NextStrip == StripStep

SpecStrip == InitStrip /\ [][NextStrip]_vars

\* --------------------------------------------- properties of prompt stripping
\* C2: when the engine returns prompt + suffix, the generation written is the
\* suffix with its leading and trailing whitespace removed.
C2_StripsOnlyThePrefix ==
    spc = "done" => sout = Strip(ss)

\* ------------------------------------------ properties of the dataset exporter
\* the lines of a file content: the text before each newline character
RECURSIVE FileLines(_)
FileLines(content) ==
    IF content = <<>> THEN <<>>
    ELSE LET nl == CHOOSE k \in 1..Len(content) :
                      content[k] = "nl" /\ \A m \in 1..(k - 1) : content[m] # "nl"
         IN  <<SubSeq(content, 1, nl - 1)>> \o FileLines(SubSeq(content, nl + 1, Len(content)))

\* the (subset, pair) of the k-th dump_pair call of a run that goes through
Schedule ==
    [k \in 1..(Len(splits) * Len(PAIRS)) |->
        <<splits[((k - 1) \div Len(PAIRS)) + 1], PAIRS[((k - 1) % Len(PAIRS)) + 1]>>]

\* the two paths of a (subset, pair), source language first
PathsOf(entry) ==
    <<DocPath(entry[1], entry[2], entry[2][1]), DocPath(entry[1], entry[2], entry[2][2])>>

\* the paths written by the first m calls, in order
RECURSIVE WritesOfFirst(_)
WritesOfFirst(m) ==
    IF m = 0 THEN <<>> ELSE WritesOfFirst(m - 1) \o PathsOf(Schedule[m])

PairIndex(pair) == CHOOSE q \in 1..Len(PAIRS) : PAIRS[q] = pair

\* the documents a path holds: those of its language's column, row by row
DocsOf(path) ==
    LET ds == LoadDataset(seed, path[1], PairIndex(path[2]))
    IN  [r \in 1..Len(ds) |-> IF path[3] = path[2][1] THEN ds[r].src_txt ELSE ds[r].tgt_txt]

UnknownAt == {k \in 1..Len(splits) : splits[k] \notin RemoteSubsets}
FirstUnknown == CHOOSE k \in UnknownAt : \A m \in UnknownAt : k <= m

\* C4: after a successful run every requested split and every pair has exactly
\* its two files, each with one line per row of the fetched subset, in row
\* order, and so with equal line counts.
C4_TwoFilesPerPairOneLinePerRow ==
    epc = "done" =>
        \A k \in 1..Len(splits) : \A q \in 1..Len(PAIRS) :
            LET subset == splits[k]
                pair == PAIRS[q]
                ds == LoadDataset(seed, subset, q)
                src_path == <<subset, pair, "eng">>
                tgt_path == <<subset, pair, pair[2]>>
            IN  /\ {p \in DOMAIN fs : p[1] = subset /\ p[2] = pair} = {src_path, tgt_path}
                /\ src_path # tgt_path
                /\ LineCount(fs[src_path]) = Len(ds)
                /\ LineCount(fs[tgt_path]) = Len(ds)
                /\ FileLines(fs[src_path]) = [r \in 1..Len(ds) |-> JsonDumps(ds[r].src_txt)]
                /\ FileLines(fs[tgt_path]) = [r \in 1..Len(ds) |-> JsonDumps(ds[r].tgt_txt)]

\* C4 witness: a run over two splits ended, with a file of two lines one of
\* which holds an escaped newline
C4_Witness ==
    /\ epc = "done" /\ Len(splits) = 2
    /\ \E p \in DOMAIN fs : LineCount(fs[p]) = 2 /\ Len(fs[p]) > 12

\* C7: subsets and pairs are fetched in list and catalog order; once a fetch
\* failed the run is over: that fetch is the last one, nothing was written for
\* its pair or for anything after it, and the files of the pairs before it are
\* as they were written.
C7_FetchFailureAborts ==
    /\ Len(fetched) <= Len(Schedule)
    /\ \A k \in 1..Len(fetched) : fetched[k] = Schedule[k]
    /\ fetch_failed =>
          /\ epc = "failed"
          /\ ~ENABLED NextExporter
          /\ written = WritesOfFirst(Len(fetched) - 1)
          /\ DOMAIN fs = {written[k] : k \in 1..Len(written)}
          /\ \A p \in DOMAIN fs : fs[p] = SaveJsonl(DocsOf(p))

\* C7 witness: the fetch of the second pair of the second split failed
C7_Witness ==
    /\ epc = "failed" /\ si = 2 /\ pi = 2
    /\ Len(written) = 2 * (Len(PAIRS) + 1)

\* C8 as stated: with an unknown split name in the list no directory and no
\* file is ever created
C8_UnknownSplitStopsBeforeWork ==
    UnknownAt # {} => written = <<>> /\ dirs = {} /\ DOMAIN fs = {}

\* C8 amended: with an unknown split name in the list the run never ends
\* successfully; the splits before the first unknown name are exported, the
\* fetch of the unknown split's first pair is the last fetch and fails, and
\* directories and files exist only for the splits listed before it.
C8_UnknownSplitFailsAtItsFirstFetch ==
    UnknownAt # {} =>
        LET before == {splits[k] : k \in 1..(FirstUnknown - 1)}
            last == (FirstUnknown - 1) * Len(PAIRS) + 1
        IN  /\ epc # "done"
            /\ \A p \in DOMAIN fs : p[1] \in before
            /\ \A d \in dirs : d[1] \in before
            /\ \A k \in 1..Len(written) : written[k][1] \in before
            /\ Len(fetched) <= last
            /\ Len(fetched) = last =>
                  /\ epc = "failed"
                  /\ written = WritesOfFirst(last - 1)

\* C8 witness: the run failed at the unknown second split after exporting the
\* first one in full
C8_Witness ==
    /\ epc = "failed" /\ splits = <<"dev", "valid">>
    /\ Len(written) = 2 * Len(PAIRS)

====
